---- MODULE Spec2Model ----
(***************************************************************************)
(* The ConfigCat OpenFeature provider (src/src/provider.rs): translation   *)
(* of an OpenFeature evaluation context into a ConfigCat User, one call to *)
(* the ConfigCat client, and translation of the client's evaluation        *)
(* details into OpenFeature resolution details or an evaluation error.     *)
(***************************************************************************)
EXTENDS Integers, Sequences, FiniteSets, TLC

VARIABLES
    provider,            \* the ConfigCatProvider value (immutable after new)
    pc,                  \* per call: idle | to_user | get_value_details | await | done
    kind,                \* per call: which resolve_*_value is running
    flag_key,            \* per call: the flag_key argument
    evaluation_context,  \* per call: the evaluation_context argument
    order,               \* per call: the order in which the HashMap yields custom_fields
    user,                \* per call: Option of the Result of to_user
    details,             \* per call: Option of the client's EvaluationDetails
    result,              \* per call: Option of the returned EvaluationResult
    engine_log           \* per call: the get_value_details calls its run made

vars == <<provider, pc, kind, flag_key, evaluation_context, order, user, details,
          result, engine_log>>

----------------------------------------------------------------------------
(* Bounds of the model.                                                    *)

\* Largest number of custom fields of a context in the context-rich runs.
MaxFields == 2
\* Number of resolve calls that may be in flight together.
MaxCalls == 2

----------------------------------------------------------------------------
(* Option and Result.                                                      *)

None == <<>>
Some(x) == <<x>>
is_some(o) == o # <<>>
is_none(o) == o = <<>>
unwrap(o) == o[1]

Ok(v) == [ok |-> TRUE, val |-> v]
Err(e) == [ok |-> FALSE, err |-> e]

EmptyMap == [n \in {} |-> None]

----------------------------------------------------------------------------
(* The provider.                                                           *)

NAME == "ConfigCatProvider"

ConfigCatProvider_new == [client |-> "client", provider_metadata |-> [name |-> NAME]]

metadata(p) == p.provider_metadata

----------------------------------------------------------------------------
(* Evaluation context (open_feature) and User (configcat).                 *)

\* EvaluationContextFieldValue. A float is held in tenths; a DateTime as
\* <<whole seconds since the Unix epoch, nanoseconds within the second>>.
CtxBool(b) == [t |-> "Bool", b |-> b]
CtxInt(i) == [t |-> "Int", i |-> i]
CtxFloat(f) == [t |-> "Float", f |-> f]
CtxString(s) == [t |-> "String", s |-> s]
CtxDateTime(d) == [t |-> "DateTime", d |-> d]
CtxStruct == [t |-> "Struct"]

\* UserValue.
UserString(s) == [t |-> "String", s |-> s]
UserInt(i) == [t |-> "Int", i |-> i]
UserFloat(f) == [t |-> "Float", f |-> f]

\* User::EMAIL and User::COUNTRY, the names of the predefined attributes.
EMAIL == "Email"
COUNTRY == "Country"

User_new(identifier) ==
    [identifier |-> identifier, email |-> None, country |-> None, custom |-> EmptyMap]
User_email(u, email) == [u EXCEPT !.email = Some(email)]
User_country(u, country) == [u EXCEPT !.country = Some(country)]
User_custom(u, key, value) ==
    [u EXCEPT !.custom = [n \in (DOMAIN u.custom) \cup {key} |->
                             IF n = key THEN value ELSE u.custom[n]]]

\* EvaluationContextFieldValue::as_str
as_str(attr) == IF attr.t = "String" THEN Some(attr.s) ELSE None

\* bool::to_string
bool_to_string(b) == IF b THEN "true" ELSE "false"

\* OffsetDateTime::unix_timestamp
unix_timestamp(d) == d[1]

\* to_user_value, were a Struct turned into an empty string.
to_user_value_struct_as_string(val) ==
    CASE val.t = "Bool" -> Some(UserString(bool_to_string(val.b)))
      [] val.t = "Int" -> Some(UserInt(val.i))
      [] val.t = "Float" -> Some(UserFloat(val.f))
      [] val.t = "String" -> Some(UserString(val.s))
      [] val.t = "DateTime" -> Some(UserInt(unix_timestamp(val.d)))
      [] val.t = "Struct" -> Some(UserString(""))

\* to_user_value, were a DateTime turned into its nanosecond part.
to_user_value_subsecond(val) ==
    CASE val.t = "Bool" -> Some(UserString(bool_to_string(val.b)))
      [] val.t = "Int" -> Some(UserInt(val.i))
      [] val.t = "Float" -> Some(UserFloat(val.f))
      [] val.t = "String" -> Some(UserString(val.s))
      [] val.t = "DateTime" -> Some(UserInt(val.d[2]))
      [] val.t = "Struct" -> None

\* to_user_value
to_user_value(val) ==
    CASE val.t = "Bool" -> Some(UserString(bool_to_string(val.b)))
      [] val.t = "Int" -> Some(UserInt(val.i))
      [] val.t = "Float" -> Some(UserFloat(val.f))
      [] val.t = "String" -> Some(UserString(val.s))
      [] val.t = "DateTime" -> Some(UserInt(unix_timestamp(val.d)))
      [] val.t = "Struct" -> None

\* EvaluationError; a message is the sequence of its pieces.
EvaluationError(code, message) == [code |-> code, message |-> Some(message)]

InvalidContext == <<"InvalidContext">>
ParseError == <<"ParseError">>
FlagNotFound == <<"FlagNotFound">>
TypeMismatch == <<"TypeMismatch">>
General(s) == <<"General", s>>

NotSupported == " context attribute is not supported by the ConfigCat Provider."

\* The body of the for loop of to_user over the fields still to visit.
RECURSIVE to_user_fields(_, _, _)

\* The loop, were the User::EMAIL arm missing.
to_user_fields_no_email(custom_fields, ord, u) ==
    IF ord = <<>> THEN Ok(Some(u))
    ELSE LET key == Head(ord)
             attr == custom_fields[key]
         IN  CASE key = COUNTRY ->
                    to_user_fields(custom_fields, Tail(ord),
                        IF is_some(as_str(attr))
                        THEN User_country(u, unwrap(as_str(attr))) ELSE u)
               [] OTHER ->
                    IF is_some(to_user_value(attr))
                    THEN to_user_fields(custom_fields, Tail(ord),
                             User_custom(u, key, unwrap(to_user_value(attr))))
                    ELSE Err(EvaluationError(InvalidContext, <<key, NotSupported>>))

\* The loop as written.
to_user_fields(custom_fields, ord, u) ==
    IF ord = <<>> THEN Ok(Some(u))
    ELSE LET key == Head(ord)
             attr == custom_fields[key]
         IN  CASE key = EMAIL ->
                    to_user_fields(custom_fields, Tail(ord),
                        IF is_some(as_str(attr))
                        THEN User_email(u, unwrap(as_str(attr))) ELSE u)
               [] key = COUNTRY ->
                    to_user_fields(custom_fields, Tail(ord),
                        IF is_some(as_str(attr))
                        THEN User_country(u, unwrap(as_str(attr))) ELSE u)
               [] OTHER ->
                    IF is_some(to_user_value(attr))
                    THEN to_user_fields(custom_fields, Tail(ord),
                             User_custom(u, key, unwrap(to_user_value(attr))))
                    ELSE Err(EvaluationError(InvalidContext, <<key, NotSupported>>))

\* to_user, were no subject given as soon as either part is empty.
to_user_either_empty(ctx, ord) ==
    IF is_none(ctx.targeting_key) \/ DOMAIN ctx.custom_fields = {}
    THEN Ok(None)
    ELSE LET identifier == IF is_some(ctx.targeting_key)
                           THEN unwrap(ctx.targeting_key) ELSE ""
         IN  to_user_fields(ctx.custom_fields, ord, User_new(identifier))

\* to_user, with the HashMap yielding the custom fields in the order ord.
to_user(ctx, ord) ==
    IF is_none(ctx.targeting_key) /\ DOMAIN ctx.custom_fields = {}
    THEN Ok(None)
    ELSE LET identifier == IF is_some(ctx.targeting_key)
                           THEN unwrap(ctx.targeting_key) ELSE ""
         IN  to_user_fields(ctx.custom_fields, ord, User_new(identifier))

----------------------------------------------------------------------------
(* Evaluation details (configcat) and their translation.                   *)

\* ClientError
ClientError(k, message) == [kind |-> k, message |-> message]

\* construct_reason, were the percentage option not looked at.
construct_reason_rule_only(d) ==
    IF is_some(d.matched_targeting_rule) THEN "TargetingMatch" ELSE "Default"

\* construct_reason
construct_reason(d) ==
    IF is_some(d.matched_percentage_option) \/ is_some(d.matched_targeting_rule)
    THEN "TargetingMatch"
    ELSE "Default"

\* to_res_error, were two of the codes exchanged.
to_res_error_swapped(err) ==
    CASE err.kind = "ConfigJsonNotAvailable" -> EvaluationError(ParseError, err.message)
      [] err.kind = "SettingKeyMissing" -> EvaluationError(TypeMismatch, err.message)
      [] err.kind = "SettingValueTypeMismatch" -> EvaluationError(FlagNotFound, err.message)
      [] OTHER -> EvaluationError(General("Provider error"), err.message)

\* to_res_error
to_res_error(err) ==
    CASE err.kind = "ConfigJsonNotAvailable" -> EvaluationError(ParseError, err.message)
      [] err.kind = "SettingKeyMissing" -> EvaluationError(FlagNotFound, err.message)
      [] err.kind = "SettingValueTypeMismatch" -> EvaluationError(TypeMismatch, err.message)
      [] OTHER -> EvaluationError(General("Provider error"), err.message)

ResolutionDetails(value, reason, variant) ==
    [value |-> value, reason |-> Some(reason), variant |-> variant, flag_metadata |-> None]

\* to_res_details, were the variation id left out.
to_res_details_default_variant(d) ==
    IF is_some(d.error)
    THEN Err(to_res_error(unwrap(d.error)))
    ELSE Ok(ResolutionDetails(d.value, construct_reason(d), None))

\* to_res_details
to_res_details(d) ==
    IF is_some(d.error)
    THEN Err(to_res_error(unwrap(d.error)))
    ELSE Ok(ResolutionDetails(d.value, construct_reason(d), d.variation_id))

----------------------------------------------------------------------------
(* JSON text, serde_json::from_str and the conversion into Value.          *)

\* A String holding a flag value is the sequence of its lexemes: punctuation
\* and keywords, string literals, integer and fractional number literals (the
\* latter in tenths), and runs of characters that begin no JSON value.
Tok(k) == [k |-> k]
TStr(s) == [k |-> "str", s |-> s]
TInt(i) == [k |-> "int", i |-> i]
TFloat(f) == [k |-> "float", f |-> f]
TBad(s) == [k |-> "bad", s |-> s]

\* serde_json::Value
JNull == [j |-> "Null"]
JBool(b) == [j |-> "Bool", b |-> b]
JInt(i) == [j |-> "Int", i |-> i]
JFloat(f) == [j |-> "Float", f |-> f]
JString(s) == [j |-> "String", s |-> s]
JArray(items) == [j |-> "Array", items |-> items]
JObject(fields) == [j |-> "Object", fields |-> fields]

Parsed(v, rest) == [ok |-> TRUE, val |-> v, rest |-> rest]
Syntax(msg) == [ok |-> FALSE, msg |-> msg]

MapPut(m, k, v) == [n \in (DOMAIN m) \cup {k} |-> IF n = k THEN v ELSE m[n]]

RECURSIVE parse_value(_), parse_elements(_, _), parse_members(_, _)

\* One JSON value at the head of toks.
parse_value(toks) ==
    IF toks = <<>> THEN Syntax("EOF while parsing a value")
    ELSE LET t == Head(toks)
             rest == Tail(toks)
         IN  CASE t.k = "null" -> Parsed(JNull, rest)
               [] t.k = "true" -> Parsed(JBool(TRUE), rest)
               [] t.k = "false" -> Parsed(JBool(FALSE), rest)
               [] t.k = "int" -> Parsed(JInt(t.i), rest)
               [] t.k = "float" -> Parsed(JFloat(t.f), rest)
               [] t.k = "str" -> Parsed(JString(t.s), rest)
               [] t.k = "[" ->
                    IF rest # <<>> /\ Head(rest).k = "]"
                    THEN Parsed(JArray(<<>>), Tail(rest))
                    ELSE parse_elements(rest, <<>>)
               [] t.k = "{" ->
                    IF rest # <<>> /\ Head(rest).k = "}"
                    THEN Parsed(JObject(EmptyMap), Tail(rest))
                    ELSE parse_members(rest, EmptyMap)
               [] OTHER -> Syntax("expected value")

\* The elements of an array, up to and including its closing bracket.
parse_elements(toks, items) ==
    LET e == parse_value(toks)
    IN  IF ~e.ok THEN e
        ELSE IF e.rest = <<>> THEN Syntax("EOF while parsing a list")
        ELSE IF Head(e.rest).k = "," THEN parse_elements(Tail(e.rest), Append(items, e.val))
        ELSE IF Head(e.rest).k = "]" THEN Parsed(JArray(Append(items, e.val)), Tail(e.rest))
        ELSE Syntax("expected comma or closing bracket")

\* The members of an object, up to and including its closing brace.
parse_members(toks, fields) ==
    IF toks = <<>> THEN Syntax("EOF while parsing an object")
    ELSE IF Head(toks).k # "str" THEN Syntax("key must be a string")
    ELSE IF Tail(toks) = <<>> THEN Syntax("EOF while parsing an object")
    ELSE IF Head(Tail(toks)).k # ":" THEN Syntax("expected colon")
    ELSE LET key == Head(toks).s
             e == parse_value(Tail(Tail(toks)))
         IN  IF ~e.ok THEN e
             ELSE IF e.rest = <<>> THEN Syntax("EOF while parsing an object")
             ELSE IF Head(e.rest).k = ","
                  THEN parse_members(Tail(e.rest), MapPut(fields, key, e.val))
             ELSE IF Head(e.rest).k = "}"
                  THEN Parsed(JObject(MapPut(fields, key, e.val)), Tail(e.rest))
             ELSE Syntax("expected comma or closing brace")

\* serde_json::from_str
from_str(text) ==
    LET r == parse_value(text)
    IN  IF ~r.ok THEN Err(r.msg)
        ELSE IF r.rest # <<>> THEN Err("trailing characters")
        ELSE Ok(r.val)

\* Value (open_feature)
VBool(b) == [t |-> "Bool", b |-> b]
VInt(i) == [t |-> "Int", i |-> i]
VFloat(f) == [t |-> "Float", f |-> f]
VString(s) == [t |-> "String", s |-> s]
VArray(items) == [t |-> "Array", items |-> items]
VStruct(sv) == [t |-> "Struct", sv |-> sv]
StructValue(fields) == [fields |-> fields]

NotConvertible == EvaluationError(TypeMismatch, <<"Failed to convert from JSON">>)

\* TryFrom<serde_json::Value> for Value: Value has no null.
RECURSIVE try_into(_)
try_into(json) ==
    CASE json.j = "Bool" -> Ok(VBool(json.b))
      [] json.j = "Int" -> Ok(VInt(json.i))
      [] json.j = "Float" -> Ok(VFloat(json.f))
      [] json.j = "String" -> Ok(VString(json.s))
      [] json.j = "Array" ->
            IF \E i \in DOMAIN json.items : ~try_into(json.items[i]).ok
            THEN Err(NotConvertible)
            ELSE Ok(VArray([i \in DOMAIN json.items |-> try_into(json.items[i]).val]))
      [] json.j = "Object" ->
            IF \E n \in DOMAIN json.fields : ~try_into(json.fields[n]).ok
            THEN Err(NotConvertible)
            ELSE Ok(VStruct(StructValue(
                     [n \in DOMAIN json.fields |-> try_into(json.fields[n]).val])))
      [] OTHER -> Err(NotConvertible)

\* Value::as_struct
as_struct(val) == IF val.t = "Struct" THEN Some(val.sv) ELSE None

ParseFailed == "Failed to parse JSON from evaluated string: "

\* to_struct_details, were a value that is no structure given as an empty one.
to_struct_details_any_json(d) ==
    IF is_some(d.error)
    THEN Err(to_res_error(unwrap(d.error)))
    ELSE LET json_val == from_str(d.value)
         IN  IF ~json_val.ok
             THEN Err(EvaluationError(ParseError, <<ParseFailed, json_val.err>>))
             ELSE LET val == try_into(json_val.val)
                  IN  IF ~val.ok
                      THEN Err(val.err)
                      ELSE IF is_some(as_struct(val.val))
                           THEN Ok(ResolutionDetails(unwrap(as_struct(val.val)),
                                                     construct_reason(d), d.variation_id))
                           ELSE Ok(ResolutionDetails(StructValue(EmptyMap),
                                                     construct_reason(d), d.variation_id))

\* to_struct_details
to_struct_details(d) ==
    IF is_some(d.error)
    THEN Err(to_res_error(unwrap(d.error)))
    ELSE LET json_val == from_str(d.value)
         IN  IF ~json_val.ok
             THEN Err(EvaluationError(ParseError, <<ParseFailed, json_val.err>>))
             ELSE LET val == try_into(json_val.val)
                  IN  IF ~val.ok
                      THEN Err(val.err)
                      ELSE IF is_some(as_struct(val.val))
                           THEN Ok(ResolutionDetails(unwrap(as_struct(val.val)),
                                                     construct_reason(d), d.variation_id))
                           ELSE Err(EvaluationError(TypeMismatch,
                                                    <<"Parsed value is not a StructValue">>))

----------------------------------------------------------------------------
(* The inputs: flag keys, evaluation contexts, and what the client answers. *)

FlagKeys == {"enabledFeature", "non-existing"}

FieldNames == {EMAIL, COUNTRY, "email", "plan"}

FieldValues ==
    {CtxBool(TRUE), CtxBool(FALSE), CtxInt(42), CtxFloat(15), CtxString("a@b.c"),
     CtxDateTime(<<1700000000, 500>>), CtxStruct}

TargetingKeys == {None, Some(""), Some("example@matching.com")}

EvaluationContext(targeting_key, custom_fields) ==
    [targeting_key |-> targeting_key, custom_fields |-> custom_fields]

\* EvaluationContext::default()
DefaultContext == EvaluationContext(None, EmptyMap)

\* Every context of at most MaxFields custom fields.
Contexts ==
    {EvaluationContext(t, f) :
        t \in TargetingKeys,
        f \in UNION {[D -> FieldValues] :
                        D \in {S \in SUBSET FieldNames : Cardinality(S) <= MaxFields}}}

\* The contexts of the runs that vary the client's answer.
FewContexts ==
    {DefaultContext,
     EvaluationContext(Some("example@matching.com"), EmptyMap),
     EvaluationContext(Some("u1"), [n \in {EMAIL, "plan"} |->
         IF n = EMAIL THEN CtxString("a@b.c") ELSE CtxInt(42)]),
     EvaluationContext(None, [n \in {COUNTRY} |-> CtxBool(TRUE)]),
     EvaluationContext(Some("u1"), [n \in {"plan", "email"} |->
         IF n = "plan" THEN CtxStruct ELSE CtxString("a@b.c")])}

\* The contexts of the runs with several calls in flight.
ConcContexts ==
    {DefaultContext,
     EvaluationContext(Some("u1"), [n \in {"plan"} |-> CtxInt(42)]),
     EvaluationContext(Some("u2"), [n \in {"plan"} |-> CtxStruct])}

\* The orders in which a HashMap with the keys D may yield them.
Orders(D) ==
    {s \in [1..Cardinality(D) -> D] : \A i, j \in 1..Cardinality(D) : i # j => s[i] # s[j]}

Kinds == {"bool", "int", "float", "string", "struct"}

\* The default value each resolve function hands to the client.
Default(k) ==
    CASE k = "bool" -> FALSE
      [] k = "int" -> 0
      [] k = "float" -> 0
      [] k = "string" -> <<>>
      [] k = "struct" -> <<>>

\* Flag values held as text.
Texts ==
    {<<>>,
     <<TBad("test")>>,
     <<Tok("{")>>,
     <<Tok("{"), Tok("}"), Tok("}")>>,
     <<Tok("{"), TStr("a"), Tok(":"), TInt(1), Tok(","), Tok("}")>>,
     <<Tok("{"), TInt(1), Tok(":"), TInt(1), Tok("}")>>,
     <<Tok("true")>>,
     <<TInt(5)>>,
     <<TFloat(12)>>,
     <<TStr("value")>>,
     <<Tok("null")>>,
     <<Tok("["), TInt(1), Tok(","), TInt(2), Tok("]")>>,
     <<Tok("["), Tok("null"), Tok("]")>>,
     <<Tok("{"), Tok("}")>>,
     <<Tok("{"), TStr("bool_field"), Tok(":"), Tok("true"), Tok(","),
       TStr("text_field"), Tok(":"), TStr("value"), Tok("}")>>,
     <<Tok("{"), TStr("a"), Tok(":"), Tok("["), TFloat(15), Tok("]"), Tok(","),
       TStr("b"), Tok(":"), Tok("{"), Tok("}"), Tok("}")>>,
     <<Tok("{"), TStr("a"), Tok(":"), Tok("null"), Tok("}")>>}

FlagValues(k, rich) ==
    CASE k = "bool" -> IF rich THEN {TRUE, FALSE} ELSE {TRUE}
      [] k = "int" -> IF rich THEN {0, 5} ELSE {5}
      [] k = "float" -> IF rich THEN {0, 12} ELSE {12}
      [] k = "string" -> IF rich THEN {<<>>, <<TBad("test")>>} ELSE {<<TBad("test")>>}
      [] k = "struct" -> IF rich THEN Texts ELSE {<<Tok("{"), Tok("}")>>}

ErrorKinds ==
    {"ConfigJsonNotAvailable", "SettingKeyMissing", "SettingValueTypeMismatch",
     "EvaluationFailure", "HttpRequestFailure"}

ClientErrors(rich) ==
    IF rich
    THEN {ClientError(k, m) : k \in ErrorKinds,
                              m \in {<<"Failed to evaluate setting">>, <<"">>}}
    ELSE {ClientError("SettingKeyMissing", <<"Failed to evaluate setting">>)}

\* configcat::EvaluationDetails<T>, the fields the provider reads.
EvaluationDetails(k, rich) ==
    {[value |-> v, variation_id |-> vid, matched_targeting_rule |-> mtr,
      matched_percentage_option |-> mpo, error |-> e] :
        v \in FlagValues(k, rich),
        vid \in IF rich THEN {None, Some("v-enabled")} ELSE {Some("v-enabled")},
        mtr \in {None, Some("rule")},
        mpo \in IF rich THEN {None, Some("option")} ELSE {None},
        e \in {None} \cup {Some(x) : x \in ClientErrors(rich)}}

----------------------------------------------------------------------------
(* The resolve calls.                                                      *)

Calls == 1..MaxCalls

Init(CS) ==
    /\ provider = ConfigCatProvider_new
    /\ pc = [c \in CS |-> "idle"]
    /\ kind = [c \in CS |-> ""]
    /\ flag_key = [c \in CS |-> ""]
    /\ evaluation_context = [c \in CS |-> DefaultContext]
    /\ order = [c \in CS |-> <<>>]
    /\ user = [c \in CS |-> None]
    /\ details = [c \in CS |-> None]
    /\ result = [c \in CS |-> None]
    /\ engine_log = [c \in CS |-> <<>>]

\* A resolve function is called with flag_key and evaluation_context: its
\* future holds the arguments.
Invoke(c, key, ctx) ==
    /\ pc' = [pc EXCEPT ![c] = "to_user"]
    /\ flag_key' = [flag_key EXCEPT ![c] = key]
    /\ evaluation_context' = [evaluation_context EXCEPT ![c] = ctx]
    /\ UNCHANGED <<provider, order, user, details, result, engine_log>>

resolve_bool_value(c, Keys, Ctxs) ==
    /\ pc[c] = "idle"
    /\ \E key \in Keys, ctx \in Ctxs :
          /\ Invoke(c, key, ctx)
          /\ kind' = [kind EXCEPT ![c] = "bool"]

resolve_int_value(c, Keys, Ctxs) ==
    /\ pc[c] = "idle"
    /\ \E key \in Keys, ctx \in Ctxs :
          /\ Invoke(c, key, ctx)
          /\ kind' = [kind EXCEPT ![c] = "int"]

resolve_float_value(c, Keys, Ctxs) ==
    /\ pc[c] = "idle"
    /\ \E key \in Keys, ctx \in Ctxs :
          /\ Invoke(c, key, ctx)
          /\ kind' = [kind EXCEPT ![c] = "float"]

resolve_string_value(c, Keys, Ctxs) ==
    /\ pc[c] = "idle"
    /\ \E key \in Keys, ctx \in Ctxs :
          /\ Invoke(c, key, ctx)
          /\ kind' = [kind EXCEPT ![c] = "string"]

resolve_struct_value(c, Keys, Ctxs) ==
    /\ pc[c] = "idle"
    /\ \E key \in Keys, ctx \in Ctxs :
          /\ Invoke(c, key, ctx)
          /\ kind' = [kind EXCEPT ![c] = "struct"]

\* match to_user(evaluation_context): Err(err) => Err(err) ends the call.
MatchToUser(c) ==
    /\ pc[c] = "to_user"
    /\ \E ord \in Orders(DOMAIN evaluation_context[c].custom_fields) :
          LET r == to_user(evaluation_context[c], ord)
          IN  /\ order' = [order EXCEPT ![c] = ord]
              /\ user' = [user EXCEPT ![c] = Some(r)]
              /\ IF r.ok
                 THEN /\ pc' = [pc EXCEPT ![c] = "get_value_details"]
                      /\ UNCHANGED result
                 ELSE /\ pc' = [pc EXCEPT ![c] = "done"]
                      /\ result' = [result EXCEPT ![c] = Some(Err(r.err))]
    /\ UNCHANGED <<provider, kind, flag_key, evaluation_context, details, engine_log>>

\* The call of the client, were the translated user kept in one place for all calls.
GetValueDetails_shared_user(c) ==
    /\ pc[c] = "get_value_details"
    /\ LET last == CHOOSE x \in DOMAIN pc : is_some(user[x]) /\ unwrap(user[x]).ok
       IN  engine_log' = [engine_log EXCEPT ![c] =
               Append(@, [flag_key |-> flag_key[c], default |-> Default(kind[c]),
                          user |-> unwrap(user[last]).val])]
    /\ pc' = [pc EXCEPT ![c] = "await"]
    /\ UNCHANGED <<provider, kind, flag_key, evaluation_context, order, user, details,
                   result>>

\* Ok(user) => self.client.get_value_details(flag_key, default, user) is called
\* and the call awaits the client.
GetValueDetails(c) ==
    /\ pc[c] = "get_value_details"
    /\ engine_log' = [engine_log EXCEPT ![c] =
           Append(@, [flag_key |-> flag_key[c], default |-> Default(kind[c]),
                      user |-> unwrap(user[c]).val])]
    /\ pc' = [pc EXCEPT ![c] = "await"]
    /\ UNCHANGED <<provider, kind, flag_key, evaluation_context, order, user, details,
                   result>>

\* The translation of the client's answer that each resolve function applies.
Translate(k, d) == IF k = "struct" THEN to_struct_details(d) ELSE to_res_details(d)

\* The return, were a client error answered by calling the client again.
Complete_retry(c, d) ==
    /\ pc[c] = "await"
    /\ details' = [details EXCEPT ![c] = Some(d)]
    /\ IF is_some(d.error)
       THEN /\ pc' = [pc EXCEPT ![c] = "get_value_details"]
            /\ UNCHANGED result
       ELSE /\ pc' = [pc EXCEPT ![c] = "done"]
            /\ result' = [result EXCEPT ![c] = Some(Translate(kind[c], d))]
    /\ UNCHANGED <<provider, kind, flag_key, evaluation_context, order, user, engine_log>>

\* The client answers d; the call translates it and returns.
Complete(c, d) ==
    /\ pc[c] = "await"
    /\ details' = [details EXCEPT ![c] = Some(d)]
    /\ result' = [result EXCEPT ![c] = Some(Translate(kind[c], d))]
    /\ pc' = [pc EXCEPT ![c] = "done"]
    /\ UNCHANGED <<provider, kind, flag_key, evaluation_context, order, user, engine_log>>

\* The caller takes the result; the call's frame is gone.
Return(c) ==
    /\ pc[c] = "done"
    /\ pc' = [pc EXCEPT ![c] = "idle"]
    /\ kind' = [kind EXCEPT ![c] = ""]
    /\ flag_key' = [flag_key EXCEPT ![c] = ""]
    /\ evaluation_context' = [evaluation_context EXCEPT ![c] = DefaultContext]
    /\ order' = [order EXCEPT ![c] = <<>>]
    /\ user' = [user EXCEPT ![c] = None]
    /\ details' = [details EXCEPT ![c] = None]
    /\ result' = [result EXCEPT ![c] = None]
    /\ engine_log' = [engine_log EXCEPT ![c] = <<>>]
    /\ UNCHANGED provider

\* The client answers an awaiting call with some evaluation details.
ClientAnswers(c, rich) ==
    /\ pc[c] = "await"
    /\ \E d \in EvaluationDetails(kind[c], rich) : Complete(c, d)

Step(c, Keys, Ctxs, rich) ==
    \/ resolve_bool_value(c, Keys, Ctxs)
    \/ resolve_int_value(c, Keys, Ctxs)
    \/ resolve_float_value(c, Keys, Ctxs)
    \/ resolve_string_value(c, Keys, Ctxs)
    \/ resolve_struct_value(c, Keys, Ctxs)
    \/ MatchToUser(c)
    \/ GetValueDetails(c)
    \/ ClientAnswers(c, rich)
    \/ Return(c)

\* One caller; the client may answer anything.
InitOne == Init({1})
Next == Step(1, FlagKeys, FewContexts, TRUE)
Spec == InitOne /\ [][Next]_vars

\* One caller; the context may be anything.
NextContexts == Step(1, {"enabledFeature"}, Contexts, FALSE)
SpecContexts == InitOne /\ [][NextContexts]_vars

\* Several callers at once.
InitCalls == Init(Calls)
NextCalls == \E c \in Calls : Step(c, {"enabledFeature"}, ConcContexts, FALSE)
SpecCalls == InitCalls /\ [][NextCalls]_vars

----------------------------------------------------------------------------
(* Properties.                                                             *)

\* The calls whose context has been translated, and what came of it.
Translated(c) == is_some(user[c])
Fields(c) == evaluation_context[c].custom_fields
Predefined == {EMAIL, COUNTRY}
StructNames(c) == {n \in DOMAIN Fields(c) : Fields(c)[n].t = "Struct"}
CustomStructNames(c) == StructNames(c) \ Predefined
Names(m) == EvaluationError(InvalidContext, <<m, NotSupported>>)

\* C1 (as stated): a context with a structured attribute under any name fails
\* translation with an InvalidContext error naming a structured attribute.
C1_AnyName ==
    \A c \in DOMAIN pc :
        (Translated(c) /\ StructNames(c) # {}) =>
            /\ ~unwrap(user[c]).ok
            /\ \E n \in StructNames(c) : unwrap(user[c]).err = Names(n)

\* The first of the names S in the iteration order ord.
FirstIn(ord, S) ==
    ord[CHOOSE i \in 1..Len(ord) : ord[i] \in S /\ \A j \in 1..(i - 1) : ord[j] \notin S]

\* C1 (amended): a context with a structured attribute under a name other than
\* the predefined Email and Country fails translation with an InvalidContext
\* error naming such an attribute, the first the iteration reaches, whatever
\* else the context holds; the call returns that error, no subject, and the
\* client is not called.
C1_CustomStructRejected ==
    \A c \in DOMAIN pc :
        (Translated(c) /\ CustomStructNames(c) # {}) =>
            /\ unwrap(user[c]) = Err(Names(FirstIn(order[c], CustomStructNames(c))))
            /\ pc[c] = "done"
            /\ result[c] = Some(Err(unwrap(user[c]).err))
            /\ engine_log[c] = <<>>

\* A structured attribute visited after a supported one, with a targeting key.
C1_Witness ==
    \E c \in DOMAIN pc :
        /\ Translated(c)
        /\ is_some(evaluation_context[c].targeting_key)
        /\ Len(order[c]) = 2
        /\ Fields(c)[order[c][1]].t = "Int"
        /\ order[c][2] \in CustomStructNames(c)
        /\ unwrap(user[c]) = Err(Names(order[c][2]))

\* C5: no targeting key and no custom fields give no subject; any other
\* context that translates gives a subject identified by the targeting key,
\* or by the empty string without one; a targeting key alone gives a subject
\* with no attributes.
C5_Subject ==
    \A c \in DOMAIN pc :
        Translated(c) =>
            LET ctx == evaluation_context[c]
                r == unwrap(user[c])
                bare == is_none(ctx.targeting_key) /\ DOMAIN ctx.custom_fields = {}
            IN  /\ bare => r = Ok(None)
                /\ (~bare /\ r.ok) =>
                       /\ is_some(r.val)
                       /\ unwrap(r.val).identifier =
                              IF is_some(ctx.targeting_key)
                              THEN unwrap(ctx.targeting_key) ELSE ""
                /\ (is_some(ctx.targeting_key) /\ DOMAIN ctx.custom_fields = {}) =>
                       r = Ok(Some([identifier |-> unwrap(ctx.targeting_key),
                                    email |-> None, country |-> None,
                                    custom |-> EmptyMap]))

\* The client is called without a subject for the default context.
C5_Witness ==
    \E c \in DOMAIN pc :
        /\ pc[c] = "await"
        /\ evaluation_context[c] = DefaultContext
        /\ kind[c] = "struct"
        /\ engine_log[c][1].user = None

\* What C6 says of the attribute named n, held in the subject's field f.
C6_Routed(c, n, f) ==
    (Translated(c) /\ n \in DOMAIN Fields(c)) =>
        LET r == unwrap(user[c])
        IN  /\ CustomStructNames(c) = {} => r.ok
            /\ r.ok => /\ is_some(r.val)
                       /\ n \notin DOMAIN unwrap(r.val).custom
                       /\ unwrap(r.val)[f] =
                              IF Fields(c)[n].t = "String"
                              THEN Some(Fields(c)[n].s) ELSE None

\* C6 (as stated): a string under "email" ("country") fills the subject's
\* email (country) field; any other value under that name is dropped without
\* an error.
C6_Lowercase ==
    \A c \in DOMAIN pc : C6_Routed(c, "email", "email") /\ C6_Routed(c, "country", "country")

\* C6 (amended): a string under User::EMAIL, "Email" (User::COUNTRY, "Country")
\* fills the subject's email (country) field; any other value under that name
\* is dropped without an error and the subject has no value for it.
C6_Predefined ==
    \A c \in DOMAIN pc : C6_Routed(c, EMAIL, "email") /\ C6_Routed(c, COUNTRY, "country")

\* A structured value under Email is dropped and the translation succeeds.
C6_Witness ==
    \E c \in DOMAIN pc :
        /\ Translated(c)
        /\ DOMAIN Fields(c) = {EMAIL, COUNTRY}
        /\ Fields(c)[EMAIL].t = "Struct"
        /\ Fields(c)[COUNTRY].t = "String"
        /\ unwrap(user[c]).ok
        /\ unwrap(unwrap(user[c]).val).email = None
        /\ unwrap(unwrap(user[c]).val).country = Some(Fields(c)[COUNTRY].s)

\* The UserValue C10 gives for a supported scalar.
C10_Converted(v) ==
    CASE v.t = "Bool" -> [t |-> "String", s |-> IF v.b THEN "true" ELSE "false"]
      [] v.t = "Int" -> [t |-> "Int", i |-> v.i]
      [] v.t = "Float" -> [t |-> "Float", f |-> v.f]
      [] v.t = "String" -> [t |-> "String", s |-> v.s]
      [] v.t = "DateTime" -> [t |-> "Int", i |-> v.d[1]]

\* C10: the subject's custom attributes are exactly the attributes whose name
\* is not predefined, each under its own name with its value converted by
\* kind; translation fails only for a structured value among them.
C10_CustomAttributes ==
    \A c \in DOMAIN pc :
        Translated(c) =>
            LET r == unwrap(user[c])
                custom == DOMAIN Fields(c) \ Predefined
            IN  /\ CustomStructNames(c) = {} => r.ok
                /\ (r.ok /\ is_some(r.val)) =>
                       /\ DOMAIN unwrap(r.val).custom = custom
                       /\ \A n \in custom :
                              unwrap(r.val).custom[n] = C10_Converted(Fields(c)[n])

\* A timestamp and a boolean under two custom names, both in the subject.
C10_Witness ==
    \E c \in DOMAIN pc :
        /\ Translated(c)
        /\ unwrap(user[c]).ok
        /\ DOMAIN Fields(c) = {"plan", "email"}
        /\ Fields(c)["plan"] = CtxDateTime(<<1700000000, 500>>)
        /\ Fields(c)["email"] = CtxBool(FALSE)
        /\ unwrap(unwrap(user[c]).val).custom["plan"] = [t |-> "Int", i |-> 1700000000]
        /\ unwrap(unwrap(user[c]).val).custom["email"] = [t |-> "String", s |-> "false"]

\* C2: a call whose translation failed returns the translation error and the
\* client was never called; a call whose translation succeeded called the
\* client exactly once, after the translation, with the flag key and the
\* translated subject.
C2_OneCallAfterTranslation ==
    \A c \in DOMAIN pc :
        /\ Len(engine_log[c]) <= 1
        /\ engine_log[c] # <<>> =>
               /\ Translated(c)
               /\ unwrap(user[c]).ok
               /\ engine_log[c][1].flag_key = flag_key[c]
               /\ engine_log[c][1].user = unwrap(user[c]).val
        /\ pc[c] = "done" =>
               /\ Translated(c)
               /\ IF unwrap(user[c]).ok
                  THEN Len(engine_log[c]) = 1
                  ELSE /\ engine_log[c] = <<>>
                       /\ result[c] = Some(Err(unwrap(user[c]).err))

\* A call ended by a failed translation, the client never called.
C2_Witness ==
    \E c \in DOMAIN pc :
        /\ pc[c] = "done"
        /\ ~unwrap(user[c]).ok
        /\ engine_log[c] = <<>>
        /\ is_none(details[c])
        /\ result[c] = Some(Err(Names("plan")))

\* The calls the client has answered.
Answered(c) == pc[c] = "done" /\ is_some(details[c])

\* The error code C3 gives for a kind of client error.
C3_Code(k) ==
    CASE k = "ConfigJsonNotAvailable" -> <<"ParseError">>
      [] k = "SettingKeyMissing" -> <<"FlagNotFound">>
      [] k = "SettingValueTypeMismatch" -> <<"TypeMismatch">>
      [] OTHER -> <<"General", "Provider error">>

\* C3: when the client's details carry an error, every resolve function
\* returns an error with the code of the error's kind and the client's message.
C3_ClientError ==
    \A c \in DOMAIN pc :
        (Answered(c) /\ is_some(unwrap(details[c]).error)) =>
            LET e == unwrap(unwrap(details[c]).error)
            IN  result[c] = Some(Err([code |-> C3_Code(e.kind),
                                      message |-> Some(e.message)]))

\* resolve_struct_value gets an error of another kind beside a well-formed
\* structure.
C3_Witness ==
    \E c \in DOMAIN pc :
        /\ Answered(c)
        /\ kind[c] = "struct"
        /\ unwrap(details[c]).value = <<Tok("{"), Tok("}")>>
        /\ unwrap(details[c]).error =
               Some(ClientError("EvaluationFailure", <<"Failed to evaluate setting">>))
        /\ ~unwrap(result[c]).ok
        /\ unwrap(result[c]).err.code = <<"General", "Provider error">>

\* C4: a successful result carries one reason, TargetingMatch exactly when the
\* details report a matched percentage option or targeting rule, else Default.
C4_Reason ==
    \A c \in DOMAIN pc :
        (pc[c] = "done" /\ unwrap(result[c]).ok) =>
            /\ Answered(c)
            /\ unwrap(result[c]).val.reason =
                   Some(IF \/ unwrap(details[c]).matched_percentage_option # None
                           \/ unwrap(details[c]).matched_targeting_rule # None
                        THEN "TargetingMatch" ELSE "Default")

\* A structured result whose only match is a percentage option.
C4_Witness ==
    \E c \in DOMAIN pc :
        /\ Answered(c)
        /\ kind[c] = "struct"
        /\ unwrap(result[c]).ok
        /\ unwrap(details[c]).matched_percentage_option # None
        /\ unwrap(details[c]).matched_targeting_rule = None
        /\ unwrap(result[c]).val.reason = Some("TargetingMatch")

\* Whether a JSON value holds a null anywhere.
RECURSIVE HoldsNull(_)
HoldsNull(json) ==
    CASE json.j = "Null" -> TRUE
      [] json.j = "Array" -> \E i \in DOMAIN json.items : HoldsNull(json.items[i])
      [] json.j = "Object" -> \E n \in DOMAIN json.fields : HoldsNull(json.fields[n])
      [] OTHER -> FALSE

\* The result value C7 expects for a JSON value without null.
RECURSIVE C7_Value(_)
C7_Value(json) ==
    CASE json.j = "Array" -> [t |-> "Array", items |-> [i \in DOMAIN json.items |-> C7_Value(json.items[i])]]
      [] json.j = "Object" ->
            [t |-> "Struct", sv |-> [fields |-> [n \in DOMAIN json.fields |-> C7_Value(json.fields[n])]]]
      [] json.j = "Bool" -> [t |-> "Bool", b |-> json.b]
      [] json.j = "Int" -> [t |-> "Int", i |-> json.i]
      [] json.j = "Float" -> [t |-> "Float", f |-> json.f]
      [] json.j = "String" -> [t |-> "String", s |-> json.s]

\* The calls of resolve_struct_value the client answered without an error.
StructAnswered(c) ==
    Answered(c) /\ kind[c] = "struct" /\ is_none(unwrap(details[c]).error)

C7_Code(c, code) == ~unwrap(result[c]).ok /\ unwrap(result[c]).err.code = code

C7_Success(c, json) ==
    /\ unwrap(result[c]).ok
    /\ DOMAIN unwrap(result[c]).val.value.fields = DOMAIN json.fields
    /\ unwrap(result[c]).val.variant = unwrap(details[c]).variation_id
    /\ unwrap(result[c]).val.reason # None

\* C7 (as stated): text that does not parse gives ParseError, text that parses
\* to something other than a keyed structure gives TypeMismatch, and text that
\* parses to a keyed structure gives a success carrying it.
C7_ThreeWays ==
    \A c \in DOMAIN pc :
        StructAnswered(c) =>
            LET p == from_str(unwrap(details[c]).value)
            IN  IF ~p.ok THEN C7_Code(c, <<"ParseError">>)
                ELSE IF p.val.j # "Object" THEN C7_Code(c, <<"TypeMismatch">>)
                ELSE C7_Success(c, p.val)

\* C7 (amended): text that does not parse gives ParseError; text that parses
\* to a value holding a null, which Value cannot hold, gives the error of the
\* conversion into Value, unchanged; text that parses to anything else that is
\* not a keyed structure gives TypeMismatch; text that parses to a keyed
\* structure without null gives a success carrying it, the variant and the
\* reason.
C7_FourWays ==
    \A c \in DOMAIN pc :
        StructAnswered(c) =>
            LET p == from_str(unwrap(details[c]).value)
            IN  IF ~p.ok THEN C7_Code(c, <<"ParseError">>)
                ELSE IF HoldsNull(p.val) THEN result[c] = Some(Err(NotConvertible))
                ELSE IF p.val.j # "Object" THEN C7_Code(c, <<"TypeMismatch">>)
                ELSE /\ C7_Success(c, p.val)
                     /\ unwrap(result[c]).val.value = C7_Value(p.val).sv

\* The structure of the object fixture is returned.
C7_Witness ==
    \E c \in DOMAIN pc :
        /\ StructAnswered(c)
        /\ unwrap(result[c]).ok
        /\ unwrap(result[c]).val.variant = Some("v-enabled")
        /\ unwrap(result[c]).val.value =
               [fields |-> [n \in {"bool_field", "text_field"} |->
                               IF n = "bool_field" THEN [t |-> "Bool", b |-> TRUE]
                               ELSE [t |-> "String", s |-> "value"]]]

\* C8: a scalar resolve function whose details carry no error returns the
\* client's value and variation id unchanged.
C8_ScalarUnchanged ==
    \A c \in DOMAIN pc :
        (Answered(c) /\ kind[c] # "struct" /\ is_none(unwrap(details[c]).error)) =>
            /\ unwrap(result[c]).ok
            /\ unwrap(result[c]).val.value = unwrap(details[c]).value
            /\ unwrap(result[c]).val.variant = unwrap(details[c]).variation_id

\* resolve_bool_value returns true with its variant, having passed false.
C8_Witness ==
    \E c \in DOMAIN pc :
        /\ Answered(c)
        /\ kind[c] = "bool"
        /\ engine_log[c][1].default = FALSE
        /\ unwrap(details[c]).value = TRUE
        /\ unwrap(details[c]).variation_id = Some("v-enabled")
        /\ unwrap(result[c]).ok
        /\ unwrap(result[c]).val.value = TRUE
        /\ unwrap(result[c]).val.variant = Some("v-enabled")

\* What a call with these arguments returns, and asks of the client, when it
\* is the only call: the iteration order ord and the client's answer d given.
Alone(k, key, ctx, ord, d) ==
    LET u == to_user(ctx, ord)
    IN  IF ~u.ok
        THEN [result |-> Some(Err(u.err)), asked |-> <<>>]
        ELSE [result |-> Some(Translate(k, unwrap(d))),
              asked |-> <<[flag_key |-> key, default |-> Default(k), user |-> u.val]>>]

\* C9: with calls interleaved, each finished call returned what it returns
\* alone and asked the client what it asks alone; the provider is as built.
C9_Independent ==
    /\ provider = ConfigCatProvider_new
    /\ \A c \in DOMAIN pc :
           pc[c] = "done" =>
               LET a == Alone(kind[c], flag_key[c], evaluation_context[c], order[c],
                              details[c])
               IN  result[c] = a.result /\ engine_log[c] = a.asked

\* Two calls finished together, one rejected and one answered.
C9_Witness ==
    \E c, d \in DOMAIN pc :
        /\ c # d
        /\ pc[c] = "done" /\ pc[d] = "done"
        /\ ~unwrap(user[c]).ok
        /\ unwrap(user[d]).ok /\ is_some(unwrap(user[d]).val)
        /\ unwrap(result[d]).ok

====
